---- MODULE Spec2Model ----
(***************************************************************************)
(* Model of the catalog engine of the Awesome Copilot Toolkit extension:   *)
(* IndexService (TTL cache, forced refresh, fallback, keyword expansion),  *)
(* GitHubFetchService (rate-limit check, tree / directory / file / commit  *)
(* requests) and the callers that invoke them (commands, the activation    *)
(* timer, the sidebar's change callback).                                  *)
(*                                                                         *)
(* JavaScript runs one synchronous segment at a time, so every action is   *)
(* one segment: from the resumption of an await (a response, a timer) to   *)
(* the next await.  Strings are sequences of one-character strings.        *)
(* Times are milliseconds.                                                 *)
(*                                                                         *)
(* Spec follows IndexService and its callers; fetchFullTree is one         *)
(* asynchronous call there, which returns a tree listing or throws.        *)
(* SpecFetch follows GitHubFetchService: the rate-limit check, the         *)
(* requests of each fetch operation, the remote's budget and its other     *)
(* users, and the status bar's poll.                                       *)
(***************************************************************************)
EXTENDS Integers, Sequences, FiniteSets, TLC

(***************************************************************************)
(* Bounds of the model                                                     *)
(***************************************************************************)
\* the clock advances in steps of Quantum ms up to MaxNow
Quantum == 500
MaxNow == 1000
\* the non-zero cacheTtlHours setting explored, expressed in ms
TtlMs == 500
\* the maxItems settings explored are 1 .. MaxItemsCfg
MaxItemsCfg == 2
\* the remote's quota per window, and the window length
QuotaLimit == 6
QuotaWindow == 500
\* the clock of the fetch-service specification runs up to MaxNowFetch
MaxNowFetch == 3000
\* attempts of one fetchDirectoryContents call followed by the model
MaxAttempts == 3
\* the longest tree listing and item list the pure functions are applied to
MaxTreeLen == 2
\* the longest basename (before the suffix) given to generateId
MaxNameLen == 2
\* the clock of the liveness specification counts up to Horizon; from there
\* on a tick moves every stored time back by one Quantum instead
Horizon == 500

(***************************************************************************)
(* Program constants                                                       *)
(***************************************************************************)
WarnThreshold == 5
SpreadThreshold == 2
BufferMs == 1000
SpreadDelayMs == 1000
FailOpenDelayMs == 500
TreeDelayMs == 200
DirDelayMs == 200
FileDelayMs == 100
\* thresholds of the status bar's indicator
LowMark == 5
OkMark == 20

(***************************************************************************)
(* Strings                                                                 *)
(***************************************************************************)
UpperLetters == <<"A","B","C","D","E","F","G","H","I","J","K","L","M",
                  "N","O","P","Q","R","S","T","U","V","W","X","Y","Z">>
LowerLetters == <<"a","b","c","d","e","f","g","h","i","j","k","l","m",
                  "n","o","p","q","r","s","t","u","v","w","x","y","z">>

toLowerCaseChar(ch) ==
    IF \E i \in 1..26 : UpperLetters[i] = ch
    THEN LowerLetters[CHOOSE i \in 1..26 : UpperLetters[i] = ch]
    ELSE ch

toLowerCase(s) == [i \in 1..Len(s) |-> toLowerCaseChar(s[i])]

startsWith(s, p) ==
    /\ Len(p) <= Len(s)
    /\ SubSeq(s, 1, Len(p)) = p

endsWith(s, p) ==
    /\ Len(p) <= Len(s)
    /\ SubSeq(s, Len(s) - Len(p) + 1, Len(s)) = p

\* haystack.includes(k)
includes(h, k) ==
    \E i \in 0..(Len(h) - Len(k)) : SubSeq(h, i + 1, i + Len(k)) = k

\* s.split(sep) for a set of separator characters, one piece per separator
RECURSIVE splitOn(_, _)
splitOn(s, seps) ==
    IF \A i \in 1..Len(s) : s[i] \notin seps
    THEN <<s>>
    ELSE LET i == CHOOSE j \in 1..Len(s) :
                      /\ s[j] \in seps
                      /\ \A k \in 1..(j - 1) : s[k] \notin seps
         IN <<SubSeq(s, 1, i - 1)>> \o splitOn(SubSeq(s, i + 1, Len(s)), seps)

\* s.split(/\s+/): a run of whitespace is one separator
Whitespace == {" ", "\t"}
splitWhitespace(s) ==
    LET raw == splitOn(s, Whitespace)
        inner == SelectSeq(SubSeq(raw, 2, Len(raw) - 1), LAMBDA w : w # <<>>)
    IN IF Len(raw) = 1 THEN raw
       ELSE <<raw[1]>> \o inner \o <<raw[Len(raw)]>>

\* path.split('/').pop() || path
lastSegment(path) ==
    LET segs == splitOn(path, {"/"})
        last == segs[Len(segs)]
    IN IF last = <<>> THEN path ELSE last

RECURSIVE joinWith(_, _)
joinWith(parts, sep) ==
    IF Len(parts) = 0 THEN <<>>
    ELSE IF Len(parts) = 1 THEN parts[1]
    ELSE parts[1] \o sep \o joinWith(Tail(parts), sep)

(***************************************************************************)
(* Catalog mapping (IndexService)                                          *)
(***************************************************************************)
ItemTypes == {"instruction", "prompt", "chatmode"}

\* the characters of an ItemType, as template literals and join() use them
typeName(type) ==
    CASE type = "instruction" -> <<"i","n","s","t","r","u","c","t","i","o","n">>
      [] type = "prompt" -> <<"p","r","o","m","p","t">>
      [] type = "chatmode" -> <<"c","h","a","t","m","o","d","e">>

InstructionsDir == <<"i","n","s","t","r","u","c","t","i","o","n","s","/">>
PromptsDir == <<"p","r","o","m","p","t","s","/">>
ChatmodesDir == <<"c","h","a","t","m","o","d","e","s","/">>
InstructionsExt == <<".","i","n","s","t","r","u","c","t","i","o","n","s",".","m","d">>
PromptExt == <<".","p","r","o","m","p","t",".","m","d">>
ChatmodeExt == <<".","c","h","a","t","m","o","d","e",".","m","d">>

extensionOf(type) ==
    CASE type = "instruction" -> InstructionsExt
      [] type = "prompt" -> PromptExt
      [] type = "chatmode" -> ChatmodeExt

hasCorrectExtension(filename, type) ==
    IF type \in ItemTypes THEN endsWith(filename, extensionOf(type)) ELSE FALSE

\* title.replace(ext, ''): the first occurrence only
removeFirst(s, p) ==
    IF includes(s, p)
    THEN LET i == CHOOSE j \in 0..(Len(s) - Len(p)) :
                      /\ SubSeq(s, j + 1, j + Len(p)) = p
                      /\ \A k \in 0..(j - 1) : SubSeq(s, k + 1, k + Len(p)) # p
         IN SubSeq(s, 1, i) \o SubSeq(s, i + Len(p) + 1, Len(s))
    ELSE s

Digits == {"0","1","2","3","4","5","6","7","8","9"}
isLower(ch) == \E i \in 1..26 : LowerLetters[i] = ch
isUpper(ch) == \E i \in 1..26 : UpperLetters[i] = ch
\* the regular expression class \w
isWordChar(ch) == isLower(ch) \/ isUpper(ch) \/ ch \in Digits \/ ch = "_"

toUpperCaseChar(ch) ==
    IF isLower(ch)
    THEN UpperLetters[CHOOSE i \in 1..26 : LowerLetters[i] = ch]
    ELSE ch

extractTitle(filename, type) ==
    LET stripped == IF type \in ItemTypes
                    THEN removeFirst(filename, extensionOf(type))
                    ELSE filename
        spaced == [i \in 1..Len(stripped) |->
                     IF stripped[i] \in {"-", "_"} THEN " " ELSE stripped[i]]
    IN [i \in 1..Len(spaced) |->
          IF isWordChar(spaced[i]) /\ (i = 1 \/ ~isWordChar(spaced[i - 1]))
          THEN toUpperCaseChar(spaced[i])
          ELSE spaced[i]]

\* an id that keeps the letter case of the basename
generateId_caseKept(filename, type) ==
    LET base == IF endsWith(filename, InstructionsExt)
                THEN SubSeq(filename, 1, Len(filename) - Len(InstructionsExt))
                ELSE IF endsWith(filename, PromptExt)
                THEN SubSeq(filename, 1, Len(filename) - Len(PromptExt))
                ELSE IF endsWith(filename, ChatmodeExt)
                THEN SubSeq(filename, 1, Len(filename) - Len(ChatmodeExt))
                ELSE filename
    IN typeName(type) \o <<"-">> \o
       [i \in 1..Len(base) |->
          IF isLower(base[i]) \/ isUpper(base[i]) \/ base[i] \in Digits
          THEN base[i] ELSE "-"]

generateId(filename, type) ==
    LET base == IF endsWith(filename, InstructionsExt)
                THEN SubSeq(filename, 1, Len(filename) - Len(InstructionsExt))
                ELSE IF endsWith(filename, PromptExt)
                THEN SubSeq(filename, 1, Len(filename) - Len(PromptExt))
                ELSE IF endsWith(filename, ChatmodeExt)
                THEN SubSeq(filename, 1, Len(filename) - Len(ChatmodeExt))
                ELSE filename
        lower == toLowerCase(base)
    IN typeName(type) \o <<"-">> \o
       [i \in 1..Len(lower) |->
          IF isLower(lower[i]) \/ lower[i] \in Digits THEN lower[i] ELSE "-"]

\* a mapping that fills in the description while indexing
catalogItem_hydrating(path, type, repo, branch) ==
    [ id |-> generateId(lastSegment(path), type),
      type |-> type,
      title |-> extractTitle(lastSegment(path), type),
      path |-> path,
      rawUrl |-> [repo |-> repo, branch |-> branch, path |-> path],
      lastModified |-> <<>>,
      description |-> <<"z">>,
      sha |-> <<>> ]

\* the raw URL template: host, contentRepo, contentBranch and path
catalogItem(path, type, repo, branch) ==
    [ id |-> generateId(lastSegment(path), type),
      type |-> type,
      title |-> extractTitle(lastSegment(path), type),
      path |-> path,
      rawUrl |-> [repo |-> repo, branch |-> branch, path |-> path],
      lastModified |-> <<>>,
      description |-> <<>>,
      sha |-> <<>> ]

\* entry.path.split('/').pop() || ''
popOrEmpty(path) ==
    LET segs == splitOn(path, {"/"}) IN segs[Len(segs)]

\* a filter that does not look at the kind of the entry
buildCandidateType_anyKind(entry) ==
    IF startsWith(entry.path, InstructionsDir)
       /\ hasCorrectExtension(popOrEmpty(entry.path), "instruction")
    THEN "instruction"
    ELSE IF startsWith(entry.path, PromptsDir)
            /\ hasCorrectExtension(popOrEmpty(entry.path), "prompt")
    THEN "prompt"
    ELSE IF startsWith(entry.path, ChatmodesDir)
            /\ hasCorrectExtension(popOrEmpty(entry.path), "chatmode")
    THEN "chatmode"
    ELSE "none"

\* the category buildIndex gives a tree entry, "none" when it is skipped
buildCandidateType(entry) ==
    IF entry.type # "blob" THEN "none"
    ELSE IF startsWith(entry.path, InstructionsDir)
            /\ hasCorrectExtension(popOrEmpty(entry.path), "instruction")
    THEN "instruction"
    ELSE IF startsWith(entry.path, PromptsDir)
            /\ hasCorrectExtension(popOrEmpty(entry.path), "prompt")
    THEN "prompt"
    ELSE IF startsWith(entry.path, ChatmodesDir)
            /\ hasCorrectExtension(popOrEmpty(entry.path), "chatmode")
    THEN "chatmode"
    ELSE "none"

\* a limit without the floor of one item
sliceLimit_noFloor(maxItems) == maxItems

\* candidates.slice(0, Math.max(1, Math.max(1, maxItems)))
sliceLimit(maxItems) == IF maxItems < 1 THEN 1 ELSE maxItems

slice(seq, n) == SubSeq(seq, 1, IF n < Len(seq) THEN n ELSE Len(seq))

\* fetchAllItems after the tree has arrived
mapTree(tree, maxItems, repo, branch) ==
    LET candidates == SelectSeq(tree, LAMBDA e : buildCandidateType(e) # "none")
        limited == slice(candidates, sliceLimit(maxItems))
    IN [i \in 1..Len(limited) |->
          catalogItem(limited[i].path, buildCandidateType(limited[i]), repo, branch)]

\* the category expandIndexByKeywords gives a tree entry, before the keywords
expandCandidateType(entry) ==
    LET lowerPath == toLowerCase(entry.path)
        filename == lastSegment(entry.path)
    IN IF entry.type # "blob" THEN "none"
       ELSE IF startsWith(lowerPath, InstructionsDir)
               /\ hasCorrectExtension(filename, "instruction")
       THEN "instruction"
       ELSE IF startsWith(lowerPath, PromptsDir)
               /\ hasCorrectExtension(filename, "prompt")
       THEN "prompt"
       ELSE IF startsWith(lowerPath, ChatmodesDir)
               /\ hasCorrectExtension(filename, "chatmode")
       THEN "chatmode"
       ELSE "none"

\* query.toLowerCase().split(/\s+/).filter(k => k.length > 0)
keywordsOf(query) ==
    SelectSeq(splitWhitespace(toLowerCase(query)), LAMBDA k : Len(k) > 0)

\* [type, ...entry.path.toLowerCase().split(/[/\\]/)].join(' ')
haystackOf(entry, type) ==
    joinWith(<<typeName(type)>> \o splitOn(toLowerCase(entry.path), {"/", "\\"}),
             <<" ">>)

matchesKeywords(entry, type, keywords) ==
    \A i \in 1..Len(keywords) : includes(haystackOf(entry, type), keywords[i])

\* the items expandIndexByKeywords maps from the tree
expandNewItems(tree, query, maxItems, repo, branch) ==
    LET keywords == keywordsOf(query)
        candidates == SelectSeq(tree, LAMBDA e :
                          /\ expandCandidateType(e) # "none"
                          /\ matchesKeywords(e, expandCandidateType(e), keywords))
        limited == slice(candidates, sliceLimit(maxItems))
    IN [i \in 1..Len(limited) |->
          catalogItem(limited[i].path, expandCandidateType(limited[i]), repo, branch)]

\* new Map(), byPath.set(item.path, item) for each item, Array.from(values())
RECURSIVE byPathSet(_, _)
byPathSet(acc, items) ==
    IF Len(items) = 0 THEN acc
    ELSE LET item == Head(items)
             next == IF \E i \in 1..Len(acc) : acc[i].path = item.path
                     THEN [i \in 1..Len(acc) |->
                             IF acc[i].path = item.path THEN item ELSE acc[i]]
                     ELSE Append(acc, item)
         IN byPathSet(next, Tail(items))

\* a merge in which the cached entry wins over the fetched one
mergeByPath_cachedWins(existing, newItems) == byPathSet(<<>>, newItems \o existing)

\* a merge that keeps the fetched items only
mergeByPath_freshOnly(existing, newItems) == byPathSet(<<>>, newItems)

mergeByPath(existing, newItems) == byPathSet(<<>>, existing \o newItems)

(***************************************************************************)
(* KeywordMatcher (SearchService)                                          *)
(***************************************************************************)
\* String.prototype.trim
trim(s) ==
    LET solid == {i \in 1..Len(s) : s[i] \notin Whitespace}
    IN IF solid = {} THEN <<>>
       ELSE SubSeq(s, CHOOSE i \in solid : \A j \in solid : i <= j,
                      CHOOSE i \in solid : \A j \in solid : i >= j)

\* keywords.trim().toLowerCase().split(/\s+/).filter(k => k.length > 0)
keywordArray(keywords) ==
    SelectSeq(splitWhitespace(toLowerCase(trim(keywords))), LAMBDA k : Len(k) > 0)

\* [title, type, ...path segments], lowercased and joined by a blank
searchableText(item) ==
    joinWith(<<toLowerCase(item.title), toLowerCase(typeName(item.type))>>
               \o splitOn(toLowerCase(item.path), {"/", "\\"}),
             <<" ">>)

\* a search that looks at the first keyword only
searchByKeywords_firstOnly(items, keywords) ==
    LET ks == keywordArray(keywords)
    IN IF Len(ks) = 0 THEN <<>>
       ELSE SelectSeq(items, LAMBDA item : includes(searchableText(item), ks[1]))

\* a search in which one matching keyword is enough
searchByKeywords_some(items, keywords) ==
    LET ks == keywordArray(keywords)
    IN IF Len(ks) = 0 THEN <<>>
       ELSE SelectSeq(items, LAMBDA item :
               \E i \in 1..Len(ks) : includes(searchableText(item), ks[i]))

searchByKeywords(items, keywords) ==
    LET ks == keywordArray(keywords)
    IN IF Len(ks) = 0 THEN <<>>
       ELSE SelectSeq(items, LAMBDA item :
               \A i \in 1..Len(ks) : includes(searchableText(item), ks[i]))

(***************************************************************************)
(* Activation and the status-bar menu (extension.ts)                       *)
(***************************************************************************)
\* the two builds of activate(): handlers "inline" in activate, or taken from
\* the service "container"
Builds == {"inline", "container"}

\* an activation that leaves out the rate-limit command
registerCommands_noRateLimit(build) ==
    { "awesomeCopilotToolkit.browseAll",
      "awesomeCopilotToolkit.browseCustomInstructions",
      "awesomeCopilotToolkit.browseReusablePrompts",
      "awesomeCopilotToolkit.browseCustomChatModes",
      "awesomeCopilotToolkit.searchByKeywords",
      "awesomeCopilotToolkit.refreshIndex",
      "awesomeCopilotToolkit.clearCache",
      "awesomeCopilotToolkit.statusBarMenu" }

\* the ids of the registerCommand calls in the commands array
registerCommands(build) ==
    { "awesomeCopilotToolkit.browseAll",
      "awesomeCopilotToolkit.browseCustomInstructions",
      "awesomeCopilotToolkit.browseReusablePrompts",
      "awesomeCopilotToolkit.browseCustomChatModes",
      "awesomeCopilotToolkit.searchByKeywords",
      "awesomeCopilotToolkit.refreshIndex",
      "awesomeCopilotToolkit.clearCache",
      "awesomeCopilotToolkit.showRateLimit",
      "awesomeCopilotToolkit.statusBarMenu",
      "awesomeCopilotToolkit.installToWorkspace",
      "awesomeCopilotToolkit.quickSearch",
      "awesomeCopilotToolkit.installOrStartMcpServer",
      "awesomeCopilotToolkit.checkMcpCompatibility" }
    \cup IF build = "container"
         THEN { "awesomeCopilotToolkit.showDiagnostics",
                "awesomeCopilotToolkit.showDebugLogs" }
         ELSE {}

\* every command registered once activate() has returned
activate(build) ==
    registerCommands(build) \cup {"awesomeCopilotToolkit.sidebarAction"}

\* the entries of the status-bar menu
MenuActions ==
    { "Browse All Items", "Search by Keywords", "Browse Custom Instructions",
      "Browse Reusable Prompts", "Browse Custom Chat Modes", "Show Rate Limit",
      "Refresh Index", "Clear Cache" }

\* the command the menu executes for a selection; <<>> when it executes none
commandMap(selection) ==
    CASE selection = <<"Browse All Items">> -> <<"awesomeCopilotToolkit.browseAll">>
      [] selection = <<"Search by Keywords">> -> <<"awesomeCopilotToolkit.searchByKeywords">>
      [] selection = <<"Browse Custom Instructions">> -> <<"awesomeCopilotToolkit.browseCustomInstructions">>
      [] selection = <<"Browse Reusable Prompts">> -> <<"awesomeCopilotToolkit.browseReusablePrompts">>
      [] selection = <<"Browse Custom Chat Modes">> -> <<"awesomeCopilotToolkit.browseCustomChatModes">>
      [] selection = <<"Show Rate Limit">> -> <<"awesomeCopilotToolkit.showRateLimit">>
      [] selection = <<"Refresh Index">> -> <<"awesomeCopilotToolkit.refreshIndex">>
      [] selection = <<"Clear Cache">> -> <<"awesomeCopilotToolkit.clearCache">>
      [] OTHER -> <<>>

\* the commands the extension test looks for
ExpectedCommands ==
    { "awesomeCopilotToolkit.browseAll",
      "awesomeCopilotToolkit.browseCustomInstructions",
      "awesomeCopilotToolkit.browseReusablePrompts",
      "awesomeCopilotToolkit.browseCustomChatModes",
      "awesomeCopilotToolkit.refreshIndex",
      "awesomeCopilotToolkit.clearCache" }

(***************************************************************************)
(* The remote repository and the settings                                  *)
(***************************************************************************)
ContentRepo == "github/awesome-copilot"
ContentBranch == "main"
\* the branch a snapshot left by an earlier session was built from
EarlierBranch == "dev"

PathA == PromptsDir \o <<"a">> \o PromptExt
PathB == InstructionsDir \o <<"b">> \o InstructionsExt
PathReadme == <<"R","E","A","D","M","E",".","m","d">>

blob(path) == [path |-> path, type |-> "blob"]
subtree(path) == [path |-> path, type |-> "tree"]

\* what the recursive tree listing may answer
Trees ==
    { <<blob(PathA), blob(PathReadme)>>,
      <<subtree(<<"p","r","o","m","p","t","s">>), blob(PathA), blob(PathB)>> }

\* what the user may type into the keyword search
Queries == { <<"b">>, <<"m","d"," ","A">> }

(***************************************************************************)
(* State                                                                   *)
(***************************************************************************)
VARIABLES
    now,          \* Date.now()
    globalState,  \* the three cache keys; <<>> is undefined, <<v>> is v
    config,       \* [cacheTtlMs, maxItems]
    calls,        \* the IndexService invocation of each caller
    lastMiss,     \* start of the latest buildIndex(false) that fetched, since a clear
    quota,        \* the remote's rate budget: [remaining, reset]
    ops,          \* the GitHubFetchService operation of each caller
    obsReset,     \* latest reset time observed together with remaining = 0
    rateLimitItem,\* the text of the status bar's rate-limit indicator
    probe,        \* the arguments a pure function of the services is applied to
    answer        \* what that function returned

indexVars == <<globalState, config, calls, lastMiss>>
fetchVars == <<quota, ops, obsReset>>
auxVars == <<rateLimitItem, probe, answer>>
vars == <<now, globalState, config, calls, lastMiss, quota, ops, obsReset,
          rateLimitItem, probe, answer>>

\* callers of IndexService: "command" is a command handler or the activation
\* timer, "sidebar" is SidebarProvider.refresh
Slots == {"command", "sidebar"}
Ended == {"returned", "threw"}

\* no pure function is being applied
NoProbe == [fn |-> "none"]
NoAnswer == [fn |-> "none"]

EmptyStore == [data |-> <<>>, updatedAt |-> <<>>, etags |-> <<>>]

IdleCall ==
    [ op |-> "none", force |-> FALSE, query |-> <<>>, pc |-> "idle",
      wakeAt |-> 0, existing |-> <<>>, fresh |-> <<>>, result |-> <<>>,
      stale |-> FALSE, failed |-> FALSE, fetches |-> 0,
      snap0 |-> EmptyStore, atFetch |-> EmptyStore, notifyFetches |-> 0,
      callbacks |-> 0, callbackSaw |-> <<>> ]

\* the caller of GitHubFetchService operations; the status bar polls beside it
Fetchers == {"f1"}
FetchOps == {"tree", "dir", "file", "commit"}
InFlight == {"quota", "ratewait", "req", "settle", "retrywait"}

IdleOp ==
    [ op |-> "none", pc |-> "idle", req |-> "none", wakeAt |-> 0,
      attempts |-> 0, quotaOutcome |-> "none",
      obs |-> [remaining |-> 0, reset |-> 0], waitMs |-> 0 ]

\* a call that has ended is forgotten at the next step
retire(cs) == [c \in DOMAIN cs |-> IF cs[c].pc \in Ended THEN IdleCall ELSE cs[c]]
retireOps(os) == [f \in DOMAIN os |-> IF os[f].pc \in Ended THEN IdleOp ELSE os[f]]

(***************************************************************************)
(* CacheStore (IndexService over globalState)                              *)
(***************************************************************************)
\* getCachedCatalog: <<>> when items or updatedAt is missing
getCachedCatalog(store) ==
    IF store.data # <<>> /\ store.updatedAt # <<>>
    THEN << [items |-> store.data[1], updatedAt |-> store.updatedAt[1]] >>
    ELSE <<>>

\* a check that still accepts a snapshot whose age equals the TTL
isCacheValid_inclusive(updatedAt, ttlMs, t) == (t - updatedAt) <= ttlMs

\* diffHours < ttlHours, both sides multiplied by the ms of an hour
isCacheValid(updatedAt, ttlMs, t) == (t - updatedAt) < ttlMs

clearCache(store) == [data |-> <<>>, updatedAt |-> <<>>, etags |-> <<>>]

\* a write that stamps the snapshot with the epoch
cacheCatalogStore_epoch(store, items, t) ==
    [store EXCEPT !.data = <<items>>, !.updatedAt = <<0>>]

\* the two updates of cacheCatalog
cacheCatalogStore(store, items, t) ==
    [store EXCEPT !.data = <<items>>, !.updatedAt = <<t>>]

(***************************************************************************)
(* IndexEngine (IndexService): the synchronous segments of its operations  *)
(***************************************************************************)
\* SidebarProvider's callback: refresh() -> buildIndex(false), run inside
\* notifyIndexChanged right after the two updates of cacheCatalog
sidebarMisses(store, ttlMs, t) ==
    LET cached == getCachedCatalog(store)
    IN ~(cached # <<>> /\ isCacheValid(cached[1].updatedAt, ttlMs, t))

\* buildIndex past its cache check: fetchAllItems awaits fetchFullTree
startedBuild(force, store0, store1, t) ==
    [IdleCall EXCEPT !.op = "build", !.force = force, !.pc = "fetching",
                     !.wakeAt = t + TreeDelayMs, !.fetches = 1,
                     !.snap0 = store0, !.atFetch = store1]

\* cacheCatalog(items) by call c, then `return items`
afterCacheCatalog(cs, c, items, store1, ttlMs, t) ==
    LET miss == sidebarMisses(store1, ttlMs, t)
        done == [cs[c] EXCEPT !.pc = "returned", !.result = <<items>>,
                              !.wakeAt = 0,
                              !.notifyFetches = IF miss THEN 1 ELSE 0,
                              !.callbacks = @ + 1,
                              !.callbackSaw = <<store1>>]
        cs1 == [cs EXCEPT ![c] = done]
    IN IF miss /\ c # "sidebar"
       THEN [cs1 EXCEPT !["sidebar"] = startedBuild(FALSE, store1, store1, t)]
       ELSE cs1

\* a catch block that also notifies the subscribers
fallback_notifying(rec, store) ==
    LET cached == getCachedCatalog(store)
    IN IF cached # <<>>
       THEN [rec EXCEPT !.pc = "returned", !.result = <<cached[1].items>>,
                        !.stale = TRUE, !.failed = TRUE, !.wakeAt = 0,
                        !.callbacks = @ + 1, !.callbackSaw = <<store>>]
       ELSE [rec EXCEPT !.pc = "threw", !.failed = TRUE, !.wakeAt = 0]

\* a catch block that keeps waiting when there is no snapshot to fall back to
fallback_awaiting(rec, store) ==
    LET cached == getCachedCatalog(store)
    IN IF cached # <<>>
       THEN [rec EXCEPT !.pc = "returned", !.result = <<cached[1].items>>,
                        !.stale = TRUE, !.failed = TRUE, !.wakeAt = 0]
       ELSE [rec EXCEPT !.failed = TRUE, !.wakeAt = 0]

\* the catch block of buildIndex
fallback(rec, store) ==
    LET cached == getCachedCatalog(store)
    IN IF cached # <<>>
       THEN [rec EXCEPT !.pc = "returned", !.result = <<cached[1].items>>,
                        !.stale = TRUE, !.failed = TRUE, !.wakeAt = 0]
       ELSE [rec EXCEPT !.pc = "threw", !.failed = TRUE, !.wakeAt = 0]

(***************************************************************************)
(* Initial states                                                          *)
(***************************************************************************)
\* a snapshot an earlier session may have left in globalState
EarlierSnapshot == << catalogItem(PathA, "prompt", ContentRepo, EarlierBranch) >>

InitStores ==
    { EmptyStore,
      [data |-> <<EarlierSnapshot>>, updatedAt |-> <<0>>, etags |-> <<>>] }

Init ==
    /\ now = 0
    /\ globalState \in InitStores
    /\ config \in [cacheTtlMs : {0, TtlMs}, maxItems : 1..MaxItemsCfg]
    /\ calls = [c \in Slots |-> IdleCall]
    /\ lastMiss = <<>>
    /\ quota = [remaining |-> QuotaLimit, reset |-> QuotaWindow]
    /\ ops = [f \in Fetchers |-> IdleOp]
    /\ obsReset = 0
    /\ rateLimitItem = "checking"
    /\ probe = NoProbe
    /\ answer = NoAnswer

(***************************************************************************)
(* Actions of the index engine and its callers                             *)
(***************************************************************************)
Tick ==
    /\ now + Quantum <= MaxNow
    /\ now' = now + Quantum
    /\ calls' = retire(calls)
    /\ UNCHANGED <<globalState, config, lastMiss, fetchVars, auxVars>>

\* buildIndex(forceRefresh) up to its first await
BuildIndexStart(c, force) ==
    /\ calls[c].pc # "fetching"
    /\ c = "sidebar" => ~force
    /\ LET cached == getCachedCatalog(globalState)
       IN IF ~force /\ cached # <<>>
             /\ isCacheValid(cached[1].updatedAt, config.cacheTtlMs, now)
          THEN /\ calls' = [retire(calls) EXCEPT ![c] =
                     [IdleCall EXCEPT !.op = "build", !.pc = "returned",
                                      !.result = <<cached[1].items>>,
                                      !.snap0 = globalState]]
               /\ UNCHANGED <<globalState, lastMiss>>
          ELSE LET store1 == IF force THEN clearCache(globalState)
                             ELSE globalState
               IN /\ globalState' = store1
                  /\ calls' = [retire(calls) EXCEPT ![c] =
                        startedBuild(force, globalState, store1, now)]
                  /\ lastMiss' = IF force THEN <<>> ELSE <<now>>
    /\ UNCHANGED <<now, config, fetchVars, auxVars>>

\* expandIndexByKeywords(query) up to its first await
ExpandStart(c, query) ==
    /\ c = "command"
    /\ calls[c].pc # "fetching"
    /\ LET cached == getCachedCatalog(globalState)
           existing == IF cached # <<>> THEN cached[1].items ELSE <<>>
       IN calls' = [retire(calls) EXCEPT ![c] =
             [IdleCall EXCEPT !.op = "expand", !.query = query, !.pc = "fetching",
                              !.wakeAt = now + TreeDelayMs,
                              !.existing = existing, !.fetches = 1,
                              !.snap0 = globalState, !.atFetch = globalState]]
    /\ UNCHANGED <<now, globalState, config, lastMiss, fetchVars, auxVars>>

\* the clearCache command
ClearCacheCommand ==
    /\ globalState # clearCache(globalState)
    /\ globalState' = clearCache(globalState)
    /\ calls' = retire(calls)
    /\ lastMiss' = <<>>
    /\ UNCHANGED <<now, config, fetchVars, auxVars>>

\* the sidebar's callback needs the sidebar slot when its buildIndex misses
SidebarSlotFree(c, store1) ==
    \/ ~sidebarMisses(store1, config.cacheTtlMs, now)
    \/ c = "sidebar"
    \/ calls["sidebar"].pc # "fetching"

\* a write by call c, the notification, and the sidebar's buildIndex(false)
writeAndNotify(c, items, fresh) ==
    LET store1 == cacheCatalogStore(globalState, items, now)
        cs == [retire(calls) EXCEPT ![c] = [calls[c] EXCEPT !.fresh = fresh]]
        cs1 == afterCacheCatalog(cs, c, items, store1, config.cacheTtlMs, now)
        miss == sidebarMisses(store1, config.cacheTtlMs, now)
    IN /\ SidebarSlotFree(c, store1)
       /\ globalState' = store1
       /\ calls' = IF miss /\ c = "sidebar"
                   THEN [cs1 EXCEPT ![c] = startedBuild(FALSE, store1, store1, now)]
                   ELSE cs1
       /\ lastMiss' = IF miss THEN <<now>> ELSE lastMiss

\* the results of the two mappings for every listing and setting
builtFrom ==
    [tree \in Trees, m \in 1..MaxItemsCfg |->
        mapTree(tree, m, ContentRepo, ContentBranch)]
expandedFrom ==
    [tree \in Trees, query \in Queries, m \in 1..MaxItemsCfg |->
        expandNewItems(tree, query, m, ContentRepo, ContentBranch)]

\* fetchFullTree returns to fetchAllItems: map, cacheCatalog, return
BuildIndexCompletes(c) ==
    /\ calls[c].pc = "fetching"
    /\ calls[c].op = "build"
    /\ now >= calls[c].wakeAt
    /\ \E tree \in Trees :
          LET items == builtFrom[tree, config.maxItems]
          IN writeAndNotify(c, items, items)
    /\ UNCHANGED <<now, config, fetchVars, auxVars>>

\* fetchFullTree returns to expandIndexByKeywords: filter, merge, cacheCatalog
ExpandCompletes(c) ==
    /\ calls[c].pc = "fetching"
    /\ calls[c].op = "expand"
    /\ now >= calls[c].wakeAt
    /\ \E tree \in Trees :
          LET newItems == expandedFrom[tree, calls[c].query, config.maxItems]
              merged == mergeByPath(calls[c].existing, newItems)
          IN writeAndNotify(c, merged, newItems)
    /\ UNCHANGED <<now, config, fetchVars, auxVars>>

\* fetchFullTree throws inside buildIndex: the catch block
BuildIndexFails(c) ==
    /\ calls[c].pc = "fetching"
    /\ calls[c].op = "build"
    /\ calls' = [retire(calls) EXCEPT ![c] = fallback(calls[c], globalState)]
    /\ UNCHANGED <<now, globalState, config, lastMiss, fetchVars, auxVars>>

\* an expansion that falls back to the snapshot as buildIndex does
ExpandFails_fallingBack(c) ==
    /\ calls[c].pc = "fetching"
    /\ calls[c].op = "expand"
    /\ calls' = [retire(calls) EXCEPT ![c] = fallback(calls[c], globalState)]
    /\ UNCHANGED <<now, globalState, config, lastMiss, fetchVars, auxVars>>

\* fetchFullTree throws inside expandIndexByKeywords: nothing catches it
ExpandFails(c) ==
    /\ calls[c].pc = "fetching"
    /\ calls[c].op = "expand"
    /\ calls' = [retire(calls) EXCEPT ![c] =
          [calls[c] EXCEPT !.pc = "threw", !.failed = TRUE, !.wakeAt = 0]]
    /\ UNCHANGED <<now, globalState, config, lastMiss, fetchVars, auxVars>>

\* what getRateLimitInfo may hand to the status bar: null, or the budget
PolledRemaining == {0, LowMark, LowMark + 1, OkMark, OkMark + 1}
PollOutcomes == {<<"null">>, <<"throw">>} \cup {<<"info", r>> : r \in PolledRemaining}

\* the indicator text updateRateLimitStatus sets for an outcome of the poll
indicatorFor(outcome) ==
    IF outcome[1] = "info"
    THEN IF outcome[2] <= LowMark THEN "low"
         ELSE IF outcome[2] <= OkMark THEN "ok"
         ELSE "ready"
    ELSE "error"

\* a poll that drops the catalog when the budget cannot be read
UpdateRateLimitStatus_clearing(outcome) ==
    /\ rateLimitItem' = indicatorFor(outcome)
    /\ calls' = retire(calls)
    /\ globalState' = IF outcome[1] = "info" THEN globalState
                      ELSE clearCache(globalState)
    /\ UNCHANGED <<now, config, lastMiss, fetchVars, probe, answer>>

\* the status bar's poll, at construction and every five minutes
UpdateRateLimitStatus(outcome) ==
    /\ rateLimitItem' = indicatorFor(outcome)
    /\ calls' = retire(calls)
    /\ UNCHANGED <<now, globalState, config, lastMiss, fetchVars, probe, answer>>

Next ==
    \/ Tick
    \/ \E outcome \in PollOutcomes : UpdateRateLimitStatus(outcome)
    \/ \E c \in Slots, force \in BOOLEAN : BuildIndexStart(c, force)
    \/ \E c \in Slots, query \in Queries : ExpandStart(c, query)
    \/ ClearCacheCommand
    \/ \E c \in Slots : BuildIndexCompletes(c)
    \/ \E c \in Slots : ExpandCompletes(c)
    \/ \E c \in Slots : BuildIndexFails(c)
    \/ \E c \in Slots : ExpandFails(c)

Spec == Init /\ [][Next]_vars

(***************************************************************************)
(* Properties of the index engine                                          *)
(***************************************************************************)
hasSnapshot(store) == getCachedCatalog(store) # <<>>

\* a call takes the step from its cache check into fetchFullTree
beginsFetch(c) == calls[c].pc # "fetching" /\ calls'[c].pc = "fetching"

\* C1: for every TTL > 0, a buildIndex(false) that starts within one TTL
\* window of an earlier buildIndex(false) that fetched (no clear in between)
\* does not call fetchFullTree again.
C1_OneFetchPerWindow ==
    [][\A c \in Slots :
          ( /\ beginsFetch(c)
            /\ calls'[c].op = "build"
            /\ ~calls'[c].force
            /\ config.cacheTtlMs > 0
            /\ lastMiss # <<>> )
          => now - lastMiss[1] >= config.cacheTtlMs]_vars

\* C2: a buildIndex(true) that has ended made exactly one tree fetch, started
\* it with the three cache keys cleared, and the notification of its write
\* did not make the sidebar fetch again.
C2_ForcedFetchesOnce ==
    \A c \in Slots :
        (calls[c].op = "build" /\ calls[c].force /\ calls[c].pc \in Ended)
        => /\ calls[c].fetches = 1
           /\ calls[c].atFetch = EmptyStore
           /\ calls[c].pc = "returned" => calls[c].notifyFetches = 0

\* C3: a buildIndex whose refresh failed returns the items of the snapshot
\* that existed when it was called and marks them stale; it throws only if
\* there was no snapshot then.
C3_FallbackToSnapshot ==
    \A c \in Slots :
        (calls[c].op = "build" /\ calls[c].failed)
        => IF hasSnapshot(calls[c].snap0)
           THEN /\ calls[c].pc = "returned"
                /\ calls[c].result = <<getCachedCatalog(calls[c].snap0)[1].items>>
                /\ calls[c].stale
           ELSE calls[c].pc = "threw"

\* C4: when a buildIndex or expandIndexByKeywords has failed, the stored
\* items and timestamp are what was stored immediately before the call.
C4_FailureKeepsSnapshot ==
    \A c \in Slots :
        calls[c].failed
        => /\ globalState.data = calls[c].snap0.data
           /\ globalState.updatedAt = calls[c].snap0.updatedAt

\* C5: at most one buildIndex or expandIndexByKeywords is between its cache
\* read and its cache write.
C5_OneRefreshInFlight ==
    Cardinality({c \in Slots : calls[c].pc = "fetching"}) <= 1

pathsOf(items) == {items[i].path : i \in 1..Len(items)}
entriesAt(items, path) == {i \in 1..Len(items) : items[i].path = path}

\* C10: the snapshot expandIndexByKeywords returns is the one it persisted,
\* no path occurs twice in it, and a path present both in the cached snapshot
\* and among the freshly mapped items has one entry, equal to the fresh item.
C10_MergeLastFetchWins ==
    \A c \in Slots :
        (calls[c].op = "expand" /\ calls[c].pc = "returned")
        => LET merged == calls[c].result[1]
               existing == calls[c].existing
               fresh == calls[c].fresh
           IN /\ globalState.data = <<merged>>
              /\ \A P \in pathsOf(merged) : Cardinality(entriesAt(merged, P)) = 1
              /\ pathsOf(merged) = pathsOf(existing) \cup pathsOf(fresh)
              /\ \A P \in pathsOf(existing) \cap pathsOf(fresh) :
                    \A i \in entriesAt(merged, P), j \in entriesAt(fresh, P) :
                        merged[i] = fresh[j]

\* an expansion has returned after replacing a cached entry by a fresh one
\* that differs from it
C10_Witness ==
    \E c \in Slots :
        /\ calls[c].op = "expand"
        /\ calls[c].pc = "returned"
        /\ \E i \in 1..Len(calls[c].existing), j \in 1..Len(calls[c].fresh) :
              /\ calls[c].existing[i].path = calls[c].fresh[j].path
              /\ calls[c].existing[i] # calls[c].fresh[j]

\* a step that stores a snapshot
writes == globalState' # globalState /\ globalState'.data # <<>>

\* C15: the stored timestamp is never ahead of the clock and every write sets
\* it to the time of the write, so it never decreases from write to write.
C15_TimestampMonotone ==
    /\ [](globalState.updatedAt # <<>> => globalState.updatedAt[1] <= now)
    /\ [][writes
          => /\ globalState'.updatedAt = <<now>>
             /\ globalState.updatedAt # <<>>
                => globalState'.updatedAt[1] >= globalState.updatedAt[1]]_vars

\* a call has replaced a stored snapshot by one with a later timestamp
C15_Witness ==
    \E c \in Slots :
        /\ calls[c].pc = "returned"
        /\ calls[c].fetches = 1
        /\ ~calls[c].failed
        /\ calls[c].snap0.updatedAt # <<>>
        /\ globalState.updatedAt # <<>>
        /\ globalState.updatedAt[1] > calls[c].snap0.updatedAt[1]

\* the call went through cacheCatalog
wrote(rec) == rec.pc = "returned" /\ rec.fetches = 1 /\ ~rec.failed

\* C16: a call that wrote the cache invoked the registered callback once, and
\* the callback found the items and the timestamp of that write stored; a
\* call that hit the cache, fell back or threw invoked no callback.
C16_NotifyOncePerWrite ==
    \A c \in Slots :
        calls[c].pc \in Ended
        => IF wrote(calls[c])
           THEN /\ calls[c].callbacks = 1
                /\ calls[c].callbackSaw = <<globalState>>
                /\ globalState.data = calls[c].result
                /\ globalState.updatedAt = <<now>>
           ELSE /\ calls[c].callbacks = 0
                /\ calls[c].callbackSaw = <<>>

\* a write over a stored snapshot has been notified once
C16_Witness ==
    \E c \in Slots :
        /\ wrote(calls[c])
        /\ calls[c].snap0.data # <<>>
        /\ calls[c].callbacks = 1
        /\ calls[c].callbackSaw = <<globalState>>

\* C20: a step in which the poll changes the indicator leaves the three cache
\* keys as they are, starts no fetch of buildIndex or expandIndexByKeywords
\* and invokes no change callback.
C20_PollFrame ==
    [][rateLimitItem' # rateLimitItem
       => /\ globalState' = globalState
          /\ lastMiss' = lastMiss
          /\ calls' = retire(calls)]_vars

\* the poll has set the indicator while a refresh is in flight over a stored
\* snapshot
C20_Witness ==
    /\ rateLimitItem \in {"low", "ok", "ready", "error"}
    /\ globalState.data # <<>>
    /\ \E c \in Slots : calls[c].pc = "fetching"

\* C25: a buildIndex(false) that found a snapshot fetched the tree exactly
\* when the age of the snapshot had reached the TTL, and returned the
\* snapshot's items without a fetch exactly when the age was below the TTL;
\* with TTL = 0 no call is served from the cache.
C25_StrictFreshness ==
    \A c \in Slots :
        (calls[c].op = "build" /\ ~calls[c].force)
        => LET cached == getCachedCatalog(calls[c].snap0)
               calledAt == calls[c].wakeAt - TreeDelayMs
           IN /\ (calls[c].pc = "fetching" /\ cached # <<>>)
                 => calledAt - cached[1].updatedAt >= config.cacheTtlMs
              /\ (calls[c].pc = "returned" /\ calls[c].fetches = 0)
                 => /\ cached # <<>>
                    /\ now - cached[1].updatedAt < config.cacheTtlMs
                    /\ config.cacheTtlMs > 0
                    /\ calls[c].result = <<cached[1].items>>

\* a buildIndex(false) fetches over a snapshot whose age is exactly the TTL
C25_Witness ==
    \E c \in Slots :
        /\ calls[c].op = "build"
        /\ ~calls[c].force
        /\ calls[c].pc = "fetching"
        /\ config.cacheTtlMs > 0
        /\ calls[c].snap0.updatedAt # <<>>
        /\ calls[c].snap0.data # <<>>
        /\ calls[c].wakeAt - TreeDelayMs - calls[c].snap0.updatedAt[1]
              = config.cacheTtlMs

\* the paths of the stored snapshot
storedPaths(store) == IF store.data = <<>> THEN {} ELSE pathsOf(store.data[1])

\* C26: the snapshot an expansion stores contains every path of the snapshot
\* that is stored at the moment of its write, whichever call wrote that one
\* while the expansion awaited its tree fetch.
C26_NoLostUpdate ==
    [][\A c \in Slots :
          ( /\ calls[c].op = "expand"
            /\ calls[c].pc = "fetching"
            /\ calls'[c].pc = "returned" )
          => storedPaths(globalState) \subseteq storedPaths(globalState')]_vars

\* C28: the step in which the tree fetch of an expansion fails ends the call
\* by a throw, with no result, leaves the three cache keys as they are,
\* invokes no change callback and starts no other call.
C28_ExpandFailureThrows ==
    [][\A c \in Slots :
          ( /\ calls[c].op = "expand"
            /\ calls[c].pc = "fetching"
            /\ calls'[c].failed )
          => /\ calls'[c].pc = "threw"
             /\ calls'[c].result = <<>>
             /\ ~calls'[c].stale
             /\ globalState' = globalState
             /\ calls'[c].callbacks = 0
             /\ calls'[c].notifyFetches = 0
             /\ \A d \in Slots \ {c} : calls'[d] = retire(calls)[d]]_vars

\* an expansion has thrown although a snapshot to fall back to is stored
C28_Witness ==
    \E c \in Slots :
        /\ calls[c].op = "expand"
        /\ calls[c].pc = "threw"
        /\ calls[c].failed
        /\ hasSnapshot(globalState)
        /\ globalState = calls[c].snap0
        /\ calls[c].callbacks = 0

\* max(1, maxItems) of the settings in force
itemLimit == IF config.maxItems >= 1 THEN config.maxItems ELSE 1

\* C29: the snapshot an expansion stores has every path of the snapshot the
\* call read before its fetch, and at most max(1, maxItems) mapped items on
\* top of them; the snapshot a buildIndex refresh stores is exactly the
\* items it mapped, at most max(1, maxItems) of them.
C29_ExpandOnlyAdds ==
    \A c \in Slots :
        wrote(calls[c])
        => /\ Len(calls[c].fresh) <= itemLimit
           /\ IF calls[c].op = "expand"
              THEN /\ pathsOf(calls[c].existing) \subseteq storedPaths(globalState)
                   /\ Len(globalState.data[1])
                         <= Len(calls[c].existing) + itemLimit
              ELSE globalState.data = <<calls[c].fresh>>

\* an expansion has stored more items than maxItems
C29_Witness ==
    \E c \in Slots :
        /\ wrote(calls[c])
        /\ calls[c].op = "expand"
        /\ pathsOf(calls[c].existing) # {}
        /\ pathsOf(calls[c].existing) \subseteq storedPaths(globalState)
        /\ Len(globalState.data[1]) > itemLimit

Max(a, b) == IF a >= b THEN a ELSE b

\* the remote opens a new window once the reset time has passed
Rolled(q, t) ==
    IF t >= q.reset
    THEN [remaining |-> QuotaLimit, reset |-> t + QuotaWindow]
    ELSE q

\* requests that count against the quota
ApiRequests == {"branch", "tree", "contents", "commits"}

firstRequest(op) ==
    CASE op = "tree" -> "branch"
      [] op = "dir" -> "contents"
      [] op = "file" -> "raw"
      [] op = "commit" -> "commits"

\* a check whose catch block waits as long as the exhausted branch may
checkRateLimit_failClosed(outcome, remaining, reset, t) ==
    IF outcome = "throw" THEN FailOpenDelayMs + BufferMs
    ELSE IF outcome = "nonok" THEN 0
    ELSE IF remaining <= WarnThreshold
    THEN LET waitTime == Max(0, reset - t)
         IN IF waitTime > 0 /\ remaining = 0 THEN waitTime + BufferMs
            ELSE IF remaining <= SpreadThreshold THEN SpreadDelayMs
            ELSE 0
    ELSE 0

\* a check that spreads requests from the warning threshold down
checkRateLimit_spreadAtWarn(outcome, remaining, reset, t) ==
    IF outcome = "throw" THEN FailOpenDelayMs
    ELSE IF outcome = "nonok" THEN 0
    ELSE IF remaining <= WarnThreshold
    THEN LET waitTime == Max(0, reset - t)
         IN IF waitTime > 0 /\ remaining = 0 THEN waitTime + BufferMs
            ELSE SpreadDelayMs
    ELSE 0

\* the delay checkRateLimit awaits, by the outcome of its /rate_limit query
checkRateLimit(outcome, remaining, reset, t) ==
    IF outcome = "throw" THEN FailOpenDelayMs
    ELSE IF outcome = "nonok" THEN 0
    ELSE IF remaining <= WarnThreshold
    THEN LET waitTime == Max(0, reset - t)
         IN IF waitTime > 0 /\ remaining = 0 THEN waitTime + BufferMs
            ELSE IF remaining <= SpreadThreshold THEN SpreadDelayMs
            ELSE 0
    ELSE 0

\* the operation's fetch() of its next request
issueRequest(rec, kind) ==
    [rec EXCEPT !.pc = "req", !.req = kind, !.wakeAt = 0,
                !.attempts = IF kind = firstRequest(rec.op) THEN @ + 1 ELSE @]

\* await this.checkRateLimit() as the first step of a fetch operation
enterCheck(rec) ==
    [rec EXCEPT !.pc = "quota", !.req = "none", !.wakeAt = 0,
                !.quotaOutcome = "none", !.waitMs = 0,
                !.obs = [remaining |-> 0, reset |-> 0]]

\* what checkRateLimit saw is out of scope once the guarded request is answered
answered(rec) ==
    [rec EXCEPT !.quotaOutcome = "none", !.waitMs = 0,
                !.obs = [remaining |-> 0, reset |-> 0]]

\* after the /rate_limit outcome: await the delay, or go on to the request
afterCheck(rec, outcome, q, t) ==
    LET w == checkRateLimit(outcome, q.remaining, q.reset, t)
        seen == [rec EXCEPT !.quotaOutcome = outcome, !.waitMs = w,
                            !.obs = IF outcome = "ok"
                                    THEN [remaining |-> q.remaining,
                                          reset |-> q.reset]
                                    ELSE @]
    IN IF w > 0
       THEN [seen EXCEPT !.pc = "ratewait", !.wakeAt = t + w]
       ELSE issueRequest(seen, firstRequest(rec.op))

\* the operation throws; fetchLastCommit catches and returns undefined
fetchThrows(rec) ==
    IF rec.op = "commit"
    THEN [rec EXCEPT !.pc = "returned", !.wakeAt = 0]
    ELSE [rec EXCEPT !.pc = "threw", !.wakeAt = 0]

\* the 403 branch of fetchDirectoryContents; the other operations throw
afterForbidden(rec, reset, t) ==
    LET waitTime == Max(0, reset - t)
    IN IF rec.op = "dir" /\ waitTime > 0
       THEN [rec EXCEPT !.pc = "retrywait", !.wakeAt = t + waitTime + BufferMs]
       ELSE fetchThrows(rec)

\* the trailing delay of an operation after its last response
trailingDelay(req) ==
    CASE req = "tree" -> TreeDelayMs
      [] req = "contents" -> DirDelayMs
      [] req = "raw" -> FileDelayMs
      [] OTHER -> 0

(***************************************************************************)
(* Actions of the fetch service, its callers and the remote                *)
(***************************************************************************)
TickFetch ==
    /\ now + Quantum <= MaxNowFetch
    /\ now' = now + Quantum
    /\ ops' = retireOps(ops)
    /\ UNCHANGED <<indexVars, auxVars, quota, obsReset>>

\* fetchFullTree, fetchDirectoryContents, fetchFileContent or fetchLastCommit
\* is called: it awaits checkRateLimit, whose /rate_limit request goes out
FetchStart(f, op) ==
    /\ ops[f].pc \notin InFlight
    /\ ops' = [retireOps(ops) EXCEPT ![f] = enterCheck([IdleOp EXCEPT !.op = op])]
    /\ UNCHANGED <<now, indexVars, auxVars, quota, obsReset>>

\* /rate_limit answers 200 with the budget
RateLimitOk(f) ==
    /\ ops[f].pc = "quota"
    /\ LET q == Rolled(quota, now)
       IN /\ quota' = q
          /\ obsReset' = IF q.remaining = 0 THEN Max(obsReset, q.reset)
                         ELSE obsReset
          /\ ops' = [retireOps(ops) EXCEPT ![f] = afterCheck(ops[f], "ok", q, now)]
    /\ UNCHANGED <<now, indexVars, auxVars>>

\* /rate_limit answers with a status that is not OK
RateLimitNotOk(f) ==
    /\ ops[f].pc = "quota"
    /\ ops' = [retireOps(ops) EXCEPT ![f] = afterCheck(ops[f], "nonok", quota, now)]
    /\ UNCHANGED <<now, indexVars, auxVars, quota, obsReset>>

\* the /rate_limit request throws
RateLimitThrows(f) ==
    /\ ops[f].pc = "quota"
    /\ ops' = [retireOps(ops) EXCEPT ![f] = afterCheck(ops[f], "throw", quota, now)]
    /\ UNCHANGED <<now, indexVars, auxVars, quota, obsReset>>

\* the delay of checkRateLimit is over: the guarded request goes out
RateWaitDone(f) ==
    /\ ops[f].pc = "ratewait"
    /\ now >= ops[f].wakeAt
    /\ ops' = [retireOps(ops) EXCEPT ![f] =
          issueRequest(ops[f], firstRequest(ops[f].op))]
    /\ UNCHANGED <<now, indexVars, auxVars, quota, obsReset>>

\* the request in flight is answered 200
ResponseOk(f) ==
    /\ ops[f].pc = "req"
    /\ LET rec == answered(ops[f])
           q == Rolled(quota, now)
           api == rec.req \in ApiRequests
       IN /\ api => q.remaining > 0
          /\ quota' = IF api THEN [q EXCEPT !.remaining = @ - 1] ELSE quota
          /\ ops' = [retireOps(ops) EXCEPT ![f] =
                IF rec.req = "branch" THEN issueRequest(rec, "tree")
                ELSE IF rec.req = "commits" THEN [rec EXCEPT !.pc = "returned"]
                ELSE [rec EXCEPT !.pc = "settle",
                                 !.wakeAt = now + trailingDelay(rec.req)]]
    /\ UNCHANGED <<now, indexVars, auxVars, obsReset>>

\* the request is answered 403 with X-RateLimit-Remaining: 0
ResponseForbidden(f) ==
    /\ ops[f].pc = "req"
    /\ ops[f].req \in ApiRequests
    /\ LET q == Rolled(quota, now)
       IN /\ q.remaining = 0
          /\ quota' = q
          /\ ops' = [retireOps(ops) EXCEPT ![f] = afterForbidden(answered(ops[f]), q.reset, now)]
    /\ UNCHANGED <<now, indexVars, auxVars, obsReset>>

\* the request fails: a network error or another status that is not OK
ResponseError(f) ==
    /\ ops[f].pc = "req"
    /\ ops' = [retireOps(ops) EXCEPT ![f] = fetchThrows(answered(ops[f]))]
    /\ UNCHANGED <<now, indexVars, auxVars, quota, obsReset>>

\* the wait after a 403 is over: fetchDirectoryContents calls itself
RetryWaitDone(f) ==
    /\ ops[f].pc = "retrywait"
    /\ now >= ops[f].wakeAt
    /\ ops[f].attempts < MaxAttempts
    /\ ops' = [retireOps(ops) EXCEPT ![f] = enterCheck(ops[f])]
    /\ UNCHANGED <<now, indexVars, auxVars, quota, obsReset>>

\* the trailing delay is over: the operation returns
FetchCompletes(f) ==
    /\ ops[f].pc = "settle"
    /\ now >= ops[f].wakeAt
    /\ ops' = [retireOps(ops) EXCEPT ![f] =
          [ops[f] EXCEPT !.pc = "returned", !.wakeAt = 0]]
    /\ UNCHANGED <<now, indexVars, auxVars, quota, obsReset>>

\* other clients behind the same address use up part of the budget
ExternalUse ==
    /\ LET q == Rolled(quota, now)
       IN /\ q.remaining > 0
          /\ \E r \in 0..(q.remaining - 1) : quota' = [q EXCEPT !.remaining = r]
    /\ ops' = retireOps(ops)
    /\ UNCHANGED <<now, indexVars, auxVars, obsReset>>

\* the status bar's poll: getRateLimitInfo reads the budget and returns it
GetRateLimitInfo ==
    /\ LET q == Rolled(quota, now)
       IN /\ quota' = q
          /\ obsReset' = IF q.remaining = 0 THEN Max(obsReset, q.reset)
                         ELSE obsReset
          /\ obsReset' # obsReset \/ quota' # quota
    /\ ops' = retireOps(ops)
    /\ UNCHANGED <<now, indexVars, auxVars>>

InitFetch ==
    /\ now = 0
    /\ globalState = EmptyStore
    /\ config = [cacheTtlMs |-> TtlMs, maxItems |-> 1]
    /\ calls = [c \in Slots |-> IdleCall]
    /\ lastMiss = <<>>
    /\ quota \in [remaining : 0..QuotaLimit, reset : {QuotaWindow}]
    /\ ops = [f \in Fetchers |-> IdleOp]
    /\ obsReset = 0
    /\ rateLimitItem = "checking"
    /\ probe = NoProbe
    /\ answer = NoAnswer

NextFetch ==
    \/ TickFetch
    \/ \E f \in Fetchers, op \in FetchOps : FetchStart(f, op)
    \/ \E f \in Fetchers : RateLimitOk(f)
    \/ \E f \in Fetchers : RateLimitNotOk(f)
    \/ \E f \in Fetchers : RateLimitThrows(f)
    \/ \E f \in Fetchers : RateWaitDone(f)
    \/ \E f \in Fetchers : ResponseOk(f)
    \/ \E f \in Fetchers : ResponseForbidden(f)
    \/ \E f \in Fetchers : ResponseError(f)
    \/ \E f \in Fetchers : RetryWaitDone(f)
    \/ \E f \in Fetchers : FetchCompletes(f)
    \/ ExternalUse
    \/ GetRateLimitInfo

SpecFetch == InitFetch /\ [][NextFetch]_vars

(***************************************************************************)
(* Properties of the fetch service                                         *)
(***************************************************************************)
\* the operation hands a request to fetch() in this step
issues(f) ==
    /\ ops'[f].pc = "req"
    /\ ops[f].pc # "req" \/ ops[f].req # ops'[f].req

\* C6: once remaining = 0 has been observed with reset time T, no request
\* (branch, tree, contents, raw, commits) is issued before T, whichever
\* operation issues it.
C6_NoRequestBeforeReset ==
    [][\A f \in Fetchers : issues(f) => now >= obsReset]_vars

\* C7: no operation makes more than two attempts of its call.
C7_AtMostTwoAttempts ==
    \A f \in Fetchers : ops[f].attempts <= 2

failedOpen(rec) == rec.quotaOutcome \in {"throw", "nonok"}

\* C8: when the /rate_limit query throws or is not OK, the operation does not
\* fail: it waits at most 500 ms (not at all on a non-OK status) and its next
\* step issues the guarded request.
C8_FailsOpen ==
    /\ [](\A f \in Fetchers :
            failedOpen(ops[f])
            => /\ ops[f].pc \in {"ratewait", "req"}
               /\ ops[f].waitMs <= FailOpenDelayMs
               /\ ops[f].quotaOutcome = "nonok" => ops[f].waitMs = 0
               /\ ops[f].pc = "ratewait" => ops[f].wakeAt <= now + FailOpenDelayMs)
    /\ [][\A f \in Fetchers :
            (failedOpen(ops[f]) /\ ops[f].pc = "ratewait" /\ ops'[f] # ops[f])
            => /\ ops'[f].pc = "req"
               /\ ops'[f].req = firstRequest(ops[f].op)]_vars

\* the guarded request has gone out after a quota query that threw
C8_Witness ==
    \E f \in Fetchers :
        /\ ops[f].quotaOutcome = "throw"
        /\ ops[f].pc = "req"
        /\ ops[f].waitMs = FailOpenDelayMs

\* the time at which a waiting operation's check read the budget
checkedAt(rec) == rec.wakeAt - rec.waitMs

PathC == ChatmodesDir \o <<"c">> \o ChatmodeExt
PathWrongDir == PromptsDir \o <<"b">> \o InstructionsExt
PathUpperDir == <<"P">> \o Tail(PromptsDir) \o <<"a">> \o PromptExt
PathDash == PromptsDir \o <<"a","-","b">> \o PromptExt
PathUnderscore == PromptsDir \o <<"a","_","b">> \o PromptExt
PathNested == PromptsDir \o <<"s","/","a">> \o PromptExt
PathInner == <<"d","/">> \o PathA
PathDirLike == PromptsDir \o <<"d">> \o PromptExt

\* entries a recursive tree listing may contain
SampleEntries ==
    { blob(PathA), blob(PathB), blob(PathC), blob(PathReadme),
      subtree(SubSeq(PromptsDir, 1, Len(PromptsDir) - 1)), subtree(PathDirLike),
      blob(PathWrongDir), blob(PathUpperDir), blob(PathDash),
      blob(PathUnderscore), blob(PathNested), blob(PathInner) }

\* sequences over a set, up to a length
SeqsUpTo(S, n) == UNION {[1..k -> S] : k \in 0..n}

\* the maxItems settings a mapping is probed with
MaxItemsSettings == 0..MaxItemsCfg

\* characters of the basenames given to generateId
NameChars == {"a", "A", "-", "_", " "}
NameMyCoolThing == <<"M","y"," ","C","o","o","l"," ","T","h","i","n","g">>
NameMyCoolThingSlug == <<"m","y","-","c","o","o","l","-","t","h","i","n","g">>
NamePairs ==
    (SeqsUpTo(NameChars, MaxNameLen) \X SeqsUpTo(NameChars, MaxNameLen))
        \cup { <<NameMyCoolThing, NameMyCoolThingSlug>>,
               << <<"a", " ", " ", "b">>, <<"a", "-", "b">> >>,
               << <<"a", "_", "-", "b">>, <<"a", "-", "b">> >> }

\* a catalog item after the preview has filled in its description
hydrated(item) == [item EXCEPT !.description = <<"z">>]

\* catalog items a search runs over
SampleItems ==
    LET a == catalogItem(PathA, "prompt", ContentRepo, ContentBranch)
        ab == catalogItem(PathDash, "prompt", ContentRepo, ContentBranch)
        nested == catalogItem(PathNested, "prompt", ContentRepo, ContentBranch)
        b == catalogItem(PathB, "instruction", ContentRepo, ContentBranch)
    IN {a, ab, nested, b, hydrated(a)}

\* what the user may type into the search box
SearchQueries ==
    { <<>>, <<" ">>, <<" ", "\t">>, <<"a">>, <<"z">>, <<"A", " ", "b">>,
      <<" ", "b", " ", " ", "a", "\t">>, <<"s", "/", "a">>, <<"s", " ", "m", "d">>,
      <<"p","r","o","m","p","t">>, <<"a"," ","p","r","o","m","p","t">>, <<"t"," ","a">> }

Probes ==
    [fn : {"fetchAllItems"}, tree : SeqsUpTo(SampleEntries, MaxTreeLen),
     maxItems : MaxItemsSettings]
    \cup [fn : {"candidate"}, entry : SampleEntries]
    \cup [fn : {"generateId"}, names : NamePairs, type : ItemTypes]
    \cup [fn : {"searchByKeywords"}, items : SeqsUpTo(SampleItems, MaxTreeLen),
          keywords : SearchQueries]
    \cup [fn : {"searchTwice"}, items : SeqsUpTo(SampleItems, MaxTreeLen),
          q1 : SearchQueries, q2 : SearchQueries]
    \cup [fn : {"statusBarMenu"}, build : Builds,
          selection : {<<>>} \cup {<<a>> : a \in MenuActions}]

InitMap ==
    /\ now = 0
    /\ globalState = EmptyStore
    /\ config = [cacheTtlMs |-> TtlMs, maxItems |-> 1]
    /\ calls = [c \in Slots |-> IdleCall]
    /\ lastMiss = <<>>
    /\ quota = [remaining |-> QuotaLimit, reset |-> QuotaWindow]
    /\ ops = [f \in Fetchers |-> IdleOp]
    /\ obsReset = 0
    /\ rateLimitItem = "checking"
    /\ probe \in Probes
    /\ answer = NoAnswer

\* fetchAllItems maps the tree it was given
FetchAllItemsMaps ==
    /\ probe.fn = "fetchAllItems"
    /\ answer = NoAnswer
    /\ answer' = [fn |-> "fetchAllItems",
                  items |-> mapTree(probe.tree, probe.maxItems,
                                    ContentRepo, ContentBranch)]
    /\ UNCHANGED <<now, indexVars, fetchVars, rateLimitItem, probe>>

\* the candidate filters of fetchAllItems and expandIndexByKeywords
CandidateFilters ==
    /\ probe.fn = "candidate"
    /\ answer = NoAnswer
    /\ answer' = [fn |-> "candidate",
                  build |-> buildCandidateType(probe.entry),
                  expand |-> expandCandidateType(probe.entry)]
    /\ UNCHANGED <<now, indexVars, fetchVars, rateLimitItem, probe>>

\* generateId on two file names of one category
GeneratesIds ==
    /\ probe.fn = "generateId"
    /\ answer = NoAnswer
    /\ answer' = [fn |-> "generateId",
                  ids |-> [i \in 1..2 |->
                     generateId(probe.names[i] \o extensionOf(probe.type),
                                probe.type)]]
    /\ UNCHANGED <<now, indexVars, fetchVars, rateLimitItem, probe>>

\* SearchService.searchByKeywords
Searches ==
    /\ probe.fn = "searchByKeywords"
    /\ answer = NoAnswer
    /\ answer' = [fn |-> "searchByKeywords",
                  found |-> searchByKeywords(probe.items, probe.keywords)]
    /\ UNCHANGED <<now, indexVars, fetchVars, rateLimitItem, probe>>

\* searchByKeywords on two queries: joined by a blank in either order, one
\* after the other, and the first one alone and repeated
SearchesTwice ==
    /\ probe.fn = "searchTwice"
    /\ answer = NoAnswer
    /\ answer' =
          [fn |-> "searchTwice",
           joined |-> searchByKeywords(probe.items, probe.q1 \o <<" ">> \o probe.q2),
           swapped |-> searchByKeywords(probe.items, probe.q2 \o <<" ">> \o probe.q1),
           nested |-> searchByKeywords(searchByKeywords(probe.items, probe.q1),
                                       probe.q2),
           first |-> searchByKeywords(probe.items, probe.q1),
           repeated |-> searchByKeywords(probe.items,
                                         probe.q1 \o <<" ">> \o probe.q1)]
    /\ UNCHANGED <<now, indexVars, fetchVars, rateLimitItem, probe>>

\* the statusBarMenu command after activate(): the user picks an entry or
\* dismisses the menu, and the menu executes the entry's command
ShowsStatusBarMenu ==
    /\ probe.fn = "statusBarMenu"
    /\ answer = NoAnswer
    /\ "awesomeCopilotToolkit.statusBarMenu" \in activate(probe.build)
    /\ answer' = [fn |-> "statusBarMenu",
                  registered |-> activate(probe.build),
                  executed |-> commandMap(probe.selection)]
    /\ UNCHANGED <<now, indexVars, fetchVars, rateLimitItem, probe>>

NextMap ==
    \/ FetchAllItemsMaps
    \/ CandidateFilters
    \/ GeneratesIds
    \/ Searches
    \/ SearchesTwice
    \/ ShowsStatusBarMenu

SpecMap == InitMap /\ [][NextMap]_vars

(***************************************************************************)
(* Properties of the mapper, the id and the keyword search                 *)
(***************************************************************************)
\* the part of a path after its last slash
afterLastSlash(path) ==
    LET slashes == {i \in 1..Len(path) : path[i] = "/"}
    IN IF slashes = {} THEN path
       ELSE SubSeq(path, (CHOOSE i \in slashes : \A j \in slashes : j <= i) + 1,
                   Len(path))

dirOf(cat) ==
    CASE cat = "instruction" -> InstructionsDir
      [] cat = "prompt" -> PromptsDir
      [] cat = "chatmode" -> ChatmodesDir

\* the rule of the specification: a file under the prefix of the category
\* whose basename ends with the suffix of the category
qualifiesAs(entry, cat) ==
    LET path == entry.path
        base == afterLastSlash(path)
        prefix == dirOf(cat)
        suffix == extensionOf(cat)
    IN /\ entry.type = "blob"
       /\ Len(prefix) <= Len(path)
       /\ \A i \in 1..Len(prefix) : path[i] = prefix[i]
       /\ Len(suffix) <= Len(base)
       /\ \A i \in 1..Len(suffix) : base[Len(base) - Len(suffix) + i] = suffix[i]

qualifies(entry) == \E cat \in ItemTypes : qualifiesAs(entry, cat)
qualifying(tree) == SelectSeq(tree, qualifies)
Min(a, b) == IF a <= b THEN a ELSE b

\* C11: the build filter gives an entry the category whose prefix and suffix
\* it has and skips every other entry; every item of the catalog stems from a
\* qualifying entry and has its category, and without truncation every
\* qualifying entry is in the catalog.
C11_FilterByPrefixAndSuffix ==
    /\ answer.fn = "candidate"
       => /\ \A cat \in ItemTypes :
                answer.build = cat <=> qualifiesAs(probe.entry, cat)
          /\ answer.build = "none" <=> ~qualifies(probe.entry)
    /\ answer.fn = "fetchAllItems"
       => LET tree == probe.tree
              items == answer.items
          IN /\ \A i \in 1..Len(items) :
                   \E j \in 1..Len(tree) :
                       /\ tree[j].path = items[i].path
                       /\ qualifiesAs(tree[j], items[i].type)
             /\ Len(qualifying(tree)) <= Max(1, probe.maxItems)
                => \A j \in 1..Len(tree) :
                      qualifies(tree[j])
                      => \E i \in 1..Len(items) :
                            /\ items[i].path = tree[j].path
                            /\ qualifiesAs(tree[j], items[i].type)

\* a listing of README.md and a chat mode has been mapped to the chat mode
C11_Witness ==
    /\ answer.fn = "fetchAllItems"
    /\ probe.tree = <<blob(PathReadme), blob(PathC)>>
    /\ Len(answer.items) = 1
    /\ answer.items[1].type = "chatmode"

isAlnum(ch) == isLower(ch) \/ isUpper(ch) \/ ch \in Digits

\* two basenames that differ only in letter case or in which non-alphanumeric
\* character stands at a position
sameUpToCaseAndSeparator(b1, b2) ==
    /\ Len(b1) = Len(b2)
    /\ \A i \in 1..Len(b1) :
          \/ isAlnum(b1[i]) /\ isAlnum(b2[i])
             /\ toLowerCaseChar(b1[i]) = toLowerCaseChar(b2[i])
          \/ ~isAlnum(b1[i]) /\ ~isAlnum(b2[i])

\* C12: two basenames of one category that differ only in letter case or in
\* the separator character get the same id.
C12_IdNormalises ==
    answer.fn = "generateId"
    => (sameUpToCaseAndSeparator(probe.names[1], probe.names[2])
        => answer.ids[1] = answer.ids[2])

\* "My Cool Thing" and "my-cool-thing" have been given one id
C12_Witness ==
    /\ answer.fn = "generateId"
    /\ probe.names = <<NameMyCoolThing, NameMyCoolThingSlug>>
    /\ answer.ids[1] = answer.ids[2]

\* the lowercased maximal runs of non-whitespace characters of a query
tokensOf(query) ==
    { toLowerCase(SubSeq(query, i, j)) : <<i, j>> \in
        { ij \in (1..Len(query)) \X (1..Len(query)) :
            /\ ij[1] <= ij[2]
            /\ \A k \in ij[1]..ij[2] : query[k] \notin Whitespace
            /\ ij[1] = 1 \/ query[ij[1] - 1] \in Whitespace
            /\ ij[2] = Len(query) \/ query[ij[2] + 1] \in Whitespace } }

\* the maximal runs of a lowercased path between slashes and backslashes
segmentsOf(path) ==
    LET low == toLowerCase(path)
        seps == {"/", "\\"}
    IN { SubSeq(low, ij[1], ij[2]) : ij \in
           { ij \in (1..Len(low)) \X (1..Len(low)) :
               /\ ij[1] <= ij[2]
               /\ \A k \in ij[1]..ij[2] : low[k] \notin seps
               /\ ij[1] = 1 \/ low[ij[1] - 1] \in seps
               /\ ij[2] = Len(low) \/ low[ij[2] + 1] \in seps } }

\* every token is a substring of the title, the type name or a path segment
matchesItem(item, tokens) ==
    \A k \in tokens :
        \/ includes(toLowerCase(item.title), k)
        \/ includes(typeName(item.type), k)
        \/ \E seg \in segmentsOf(item.path) : includes(seg, k)

\* C13: a query without tokens finds nothing; any other query finds exactly
\* the items whose title, type name or path segments contain every token,
\* whatever their description is.
C13_SearchMatchesEveryToken ==
    answer.fn = "searchByKeywords"
    => LET tokens == tokensOf(probe.keywords)
       IN IF tokens = {}
          THEN answer.found = <<>>
          ELSE answer.found
                 = SelectSeq(probe.items, LAMBDA item : matchesItem(item, tokens))

\* a query of two tokens has found some of the items and dropped others
C13_Witness ==
    /\ answer.fn = "searchByKeywords"
    /\ Cardinality(tokensOf(probe.keywords)) = 2
    /\ Len(answer.found) = 1
    /\ Len(probe.items) = 2

\* C17: the catalog is the qualifying entries in listing order, cut after
\* max(1, maxItems) of them.
C17_TruncatedPrefix ==
    answer.fn = "fetchAllItems"
    => LET kept == qualifying(probe.tree)
           n == Min(Len(kept), Max(1, probe.maxItems))
       IN /\ Len(answer.items) = n
          /\ \A i \in 1..n :
                /\ answer.items[i].path = kept[i].path
                /\ qualifiesAs(kept[i], answer.items[i].type)

\* two qualifying entries have been cut to one item under maxItems = 0
C17_Witness ==
    /\ answer.fn = "fetchAllItems"
    /\ probe.maxItems = 0
    /\ Len(qualifying(probe.tree)) = 2
    /\ Len(answer.items) = 1
    /\ answer.items[1].path = probe.tree[1].path

\* C18: the filter of expandIndexByKeywords gives every entry the category
\* the filter of buildIndex gives it.
C18_SameFilter ==
    answer.fn = "candidate" => answer.expand = answer.build

\* C19: no two items of a catalog with different paths have the same id.
C19_IdsDistinct ==
    answer.fn = "fetchAllItems"
    => \A i, j \in 1..Len(answer.items) :
          answer.items[i].path # answer.items[j].path
          => answer.items[i].id # answer.items[j].id

\* the slug of the specification: lowercased, every maximal run of
\* non-alphanumeric characters replaced by one hyphen
RECURSIVE slugOf(_)
slugOf(base) ==
    IF base = <<>> THEN <<>>
    ELSE LET rest == slugOf(Tail(base))
         IN IF isAlnum(Head(base)) THEN <<toLowerCaseChar(Head(base))>> \o rest
            ELSE IF rest # <<>> /\ rest[1] = "-" THEN rest
            ELSE <<"-">> \o rest

\* C24: the id is the category, a hyphen and the slug of the basename, so
\* basenames with the same slug ("a  b", "a_-b", "a-b") get the same id.
C24_RunsCollapse ==
    answer.fn = "generateId"
    => /\ \A i \in 1..2 :
             answer.ids[i] = typeName(probe.type) \o <<"-">> \o slugOf(probe.names[i])
       /\ slugOf(probe.names[1]) = slugOf(probe.names[2])
          => answer.ids[1] = answer.ids[2]

\* a is b with some of its entries left out
RECURSIVE isSubsequence(_, _)
isSubsequence(a, b) ==
    IF a = <<>> THEN TRUE
    ELSE IF b = <<>> THEN FALSE
    ELSE IF Head(a) = Head(b) THEN isSubsequence(Tail(a), Tail(b))
    ELSE isSubsequence(a, Tail(b))

\* the laws of the search for two queries, the last one under a condition
searchLaws(composable) ==
    /\ isSubsequence(answer.joined, probe.items)
    /\ isSubsequence(answer.first, probe.items)
    /\ answer.joined = answer.swapped
    /\ answer.repeated = answer.first
    /\ composable => answer.nested = answer.joined

\* C30 as stated, for queries that are non-empty strings: the result is a
\* subsequence of the items, the order and the repetition of the keywords
\* make no difference, and searching for q1 and then for q2 in the result
\* finds what the joined query finds.
C30_SearchLawsNonEmpty ==
    (answer.fn = "searchTwice" /\ Len(probe.q1) > 0 /\ Len(probe.q2) > 0)
    => searchLaws(TRUE)

\* C30: the same laws, the subsequence, order and repetition laws for all
\* queries and the composition law for queries that each hold a keyword.
C30_SearchLaws ==
    answer.fn = "searchTwice"
    => searchLaws(tokensOf(probe.q1) # {} /\ tokensOf(probe.q2) # {})

\* two different queries have narrowed two items to one, in either order and
\* one after the other
C30_Witness ==
    /\ answer.fn = "searchTwice"
    /\ tokensOf(probe.q1) # {}
    /\ tokensOf(probe.q2) # {}
    /\ tokensOf(probe.q1) # tokensOf(probe.q2)
    /\ Len(probe.items) = 2
    /\ Len(answer.joined) = 1
    /\ Len(answer.first) = 2
    /\ answer.nested = answer.joined
    /\ answer.swapped = answer.joined

\* C23: once activate() has returned, the six commands the test looks for
\* are registered, and whatever entry of the status-bar menu is picked, the
\* command the menu executes is a registered one.
C23_CommandsRegistered ==
    answer.fn = "statusBarMenu"
    => /\ ExpectedCommands \subseteq answer.registered
       /\ \A i \in 1..Len(answer.executed) :
             answer.executed[i] \in answer.registered

\* the menu has executed the rate-limit command, which the test does not
\* look for
C23_Witness ==
    /\ answer.fn = "statusBarMenu"
    /\ probe.selection = <<"Show Rate Limit">>
    /\ answer.executed = <<"awesomeCopilotToolkit.showRateLimit">>
    /\ answer.executed[1] \notin ExpectedCommands
    /\ answer.executed[1] \in answer.registered

(***************************************************************************)
(* The key updates of cacheCatalog and clearCache, one by one              *)
(*                                                                         *)
(* Each globalState.update is a call of its own whose Thenable is dropped. *)
(* Here globalState is what a later reader finds in the storage: an update *)
(* either reaches it or is rejected, independently of the others.          *)
(***************************************************************************)
\* the catalogs a refresh may hand to cacheCatalog
WrittenCatalogs ==
    {builtFrom[tree, m] : tree \in Trees, m \in 1..MaxItemsCfg}

StoreTick ==
    /\ now + Quantum <= MaxNowFetch
    /\ now' = now + Quantum
    /\ UNCHANGED <<indexVars, fetchVars, auxVars>>

\* cacheCatalog(items): the update of the items, then of the timestamp
CacheCatalogUpdates(items, dataStored, stampStored) ==
    /\ globalState' =
          [globalState EXCEPT
              !.data = IF dataStored THEN <<items>> ELSE @,
              !.updatedAt = IF stampStored THEN <<now>> ELSE @]
    /\ UNCHANGED <<now, config, calls, lastMiss, fetchVars, auxVars>>

\* clearCache(): the three updates to undefined
ClearCacheUpdates(dataCleared, stampCleared, etagsCleared) ==
    /\ globalState' =
          [globalState EXCEPT
              !.data = IF dataCleared THEN <<>> ELSE @,
              !.updatedAt = IF stampCleared THEN <<>> ELSE @,
              !.etags = IF etagsCleared THEN <<>> ELSE @]
    /\ UNCHANGED <<now, config, calls, lastMiss, fetchVars, auxVars>>

InitStore ==
    /\ now = 0
    /\ globalState \in InitStores
    /\ config = [cacheTtlMs |-> TtlMs, maxItems |-> 1]
    /\ calls = [c \in Slots |-> IdleCall]
    /\ lastMiss = <<>>
    /\ quota = [remaining |-> QuotaLimit, reset |-> QuotaWindow]
    /\ ops = [f \in Fetchers |-> IdleOp]
    /\ obsReset = 0
    /\ rateLimitItem = "checking"
    /\ probe = NoProbe
    /\ answer = NoAnswer

NextStore ==
    \/ StoreTick
    \/ \E items \in WrittenCatalogs, dataStored, stampStored \in BOOLEAN :
          CacheCatalogUpdates(items, dataStored, stampStored)
    \/ \E dataCleared, stampCleared, etagsCleared \in BOOLEAN :
          ClearCacheUpdates(dataCleared, stampCleared, etagsCleared)

SpecStore == InitStore /\ [][NextStore]_vars

\* C14: a reader never finds items without a timestamp or a timestamp
\* without items, and a step that changes one of the keys either stores the
\* items together with the timestamp of that moment or leaves all three
\* keys absent.
C14_KeysChangeTogether ==
    /\ [](/\ globalState.data = <<>> <=> globalState.updatedAt = <<>>
          /\ globalState.data = <<>> => globalState.etags = <<>>)
    /\ [][globalState' # globalState
          => \/ /\ globalState'.data # <<>>
                /\ globalState'.data # globalState.data
                   \/ globalState.updatedAt # <<now>>
                /\ globalState'.updatedAt = <<now>>
             \/ globalState' = EmptyStore]_vars

(***************************************************************************)
(* buildIndex with the steps of its fetchFullTree, over unbounded time     *)
(*                                                                         *)
(* Every buildIndex call owns one fetchFullTree operation: ops[c] is the   *)
(* operation of calls[c].  "command" is a command handler or the           *)
(* activation timer, "sidebar" is the SidebarProvider.refresh made by the  *)
(* change callback.  The model follows one of the callback's calls at a    *)
(* time; a call the callback makes while that one is in flight runs like   *)
(* it and is not followed.  Only differences of times matter, so once the  *)
(* clock has reached Horizon a tick moves the stored times back instead of *)
(* moving the clock on; times that are in the past by then stay at 0.      *)
(***************************************************************************)
\* the budget readings a call may start under
LiveBudgets == {0, SpreadThreshold, QuotaLimit}

back(t) == Max(0, t - Quantum)
backStamp(stamp) == IF stamp = <<>> THEN <<>> ELSE <<back(stamp[1])>>
backStore(store) == [store EXCEPT !.updatedAt = backStamp(@)]
backCall(rec) ==
    [rec EXCEPT !.wakeAt = back(@), !.snap0 = backStore(@),
                !.atFetch = backStore(@),
                !.callbackSaw = IF @ = <<>> THEN <<>> ELSE <<backStore(@[1])>>]
backOp(rec) == [rec EXCEPT !.wakeAt = back(@), !.obs.reset = back(@)]

\* await this.fetchService.fetchFullTree(): the operation enters its check
treeOp == enterCheck([IdleOp EXCEPT !.op = "tree"])

\* buildIndex past its cache check, awaiting its own fetchFullTree; what the
\* storage held when it was called is not recorded here
awaitingTree(force) ==
    [startedBuild(force, EmptyStore, EmptyStore, now) EXCEPT !.wakeAt = 0]

\* the slot the callback's refresh() is followed in: the sidebar's, when the
\* call it holds is over by then
refresherFor(c) ==
    IF c = "sidebar" \/ calls["sidebar"].pc # "fetching"
    THEN <<"sidebar">>
    ELSE <<>>

InitLive ==
    /\ now = 0
    /\ globalState \in InitStores
    /\ config \in [cacheTtlMs : {0, TtlMs}, maxItems : {1}]
    /\ calls = [c \in Slots |-> IdleCall]
    /\ lastMiss = <<>>
    /\ quota \in [remaining : LiveBudgets, reset : {QuotaWindow}]
    /\ ops = [c \in Slots |-> IdleOp]
    /\ obsReset = 0
    /\ rateLimitItem = "checking"
    /\ probe = NoProbe
    /\ answer = NoAnswer

LiveTick ==
    /\ IF now + Quantum <= Horizon
       THEN /\ now' = now + Quantum
            /\ calls' = retire(calls)
            /\ ops' = retireOps(ops)
            /\ UNCHANGED <<globalState, quota>>
       ELSE /\ now' = now
            /\ globalState' = backStore(globalState)
            /\ calls' = [c \in Slots |-> backCall(retire(calls)[c])]
            /\ ops' = [c \in Slots |-> backOp(retireOps(ops)[c])]
            /\ quota' = [quota EXCEPT !.reset = back(@)]
    /\ UNCHANGED <<config, lastMiss, obsReset, auxVars>>

\* a command handler or the activation timer calls buildIndex(force)
LiveBuildStart(force) ==
    /\ calls["command"].pc # "fetching"
    /\ LET cached == getCachedCatalog(globalState)
       IN IF ~force /\ cached # <<>>
             /\ isCacheValid(cached[1].updatedAt, config.cacheTtlMs, now)
          THEN /\ calls' = [retire(calls) EXCEPT !["command"] =
                     [IdleCall EXCEPT !.op = "build", !.pc = "returned",
                                      !.result = <<cached[1].items>>]]
               /\ ops' = retireOps(ops)
               /\ UNCHANGED globalState
          ELSE LET store1 == IF force THEN clearCache(globalState)
                             ELSE globalState
               IN /\ globalState' = store1
                  /\ calls' = [retire(calls) EXCEPT !["command"] =
                        awaitingTree(force)]
                  /\ ops' = [retireOps(ops) EXCEPT !["command"] = treeOp]
    /\ UNCHANGED <<now, config, lastMiss, quota, obsReset, auxVars>>

\* the /rate_limit query of the call's checkRateLimit is answered or throws;
\* only the delay it leads to is kept
LiveRateLimitAnswers(c, outcome) ==
    /\ ops[c].pc = "quota"
    /\ LET q == IF outcome = "ok" THEN Rolled(quota, now) ELSE quota
       IN /\ quota' = q
          /\ ops' = [retireOps(ops) EXCEPT ![c] =
                answered(afterCheck(ops[c], outcome, q, now))]
    /\ calls' = retire(calls)
    /\ UNCHANGED <<now, globalState, config, lastMiss, obsReset, auxVars>>

\* the delay of checkRateLimit is over: the branch request goes out
LiveRateWaitDone(c) ==
    /\ ops[c].pc = "ratewait"
    /\ now >= ops[c].wakeAt
    /\ ops' = [retireOps(ops) EXCEPT ![c] = issueRequest(ops[c], firstRequest("tree"))]
    /\ calls' = retire(calls)
    /\ UNCHANGED <<now, globalState, config, lastMiss, quota, obsReset, auxVars>>

\* the branch or the tree request is answered 200
LiveResponseOk(c) ==
    /\ ops[c].pc = "req"
    /\ LET rec == answered(ops[c])
           q == Rolled(quota, now)
       IN /\ q.remaining > 0
          /\ quota' = [q EXCEPT !.remaining = @ - 1]
          /\ ops' = [retireOps(ops) EXCEPT ![c] =
                IF rec.req = "branch" THEN issueRequest(rec, "tree")
                ELSE [rec EXCEPT !.pc = "settle",
                                 !.wakeAt = now + trailingDelay(rec.req)]]
    /\ calls' = retire(calls)
    /\ UNCHANGED <<now, globalState, config, lastMiss, obsReset, auxVars>>

\* the request is answered 403 (budget used up), another status that is not
\* OK, or fails: fetchFullTree throws into the catch block of buildIndex
LiveResponseFails(c, forbidden) ==
    /\ ops[c].pc = "req"
    /\ LET q == Rolled(quota, now)
       IN /\ forbidden => q.remaining = 0
          /\ quota' = IF forbidden THEN q ELSE quota
          /\ ops' = [retireOps(ops) EXCEPT ![c] =
                IF forbidden THEN afterForbidden(answered(ops[c]), q.reset, now)
                ELSE fetchThrows(answered(ops[c]))]
    /\ calls' = [retire(calls) EXCEPT ![c] = fallback(calls[c], globalState)]
    /\ UNCHANGED <<now, globalState, config, lastMiss, obsReset, auxVars>>

\* the trailing delay is over: fetchFullTree returns, fetchAllItems maps the
\* tree, cacheCatalog stores it and notifies, the callback's refresh() calls
\* buildIndex(false), and the call returns its items
LiveFetchCompletes(c) ==
    /\ ops[c].pc = "settle"
    /\ now >= ops[c].wakeAt
    /\ \E tree \in Trees :
          LET items == builtFrom[tree, config.maxItems]
              store1 == cacheCatalogStore(globalState, items, now)
              miss == sidebarMisses(store1, config.cacheTtlMs, now)
              done == afterCacheCatalog(calls, c, items, store1,
                                        config.cacheTtlMs, now)[c]
              cs == [retire(calls) EXCEPT ![c] = [done EXCEPT !.fresh = items]]
              os == [retireOps(ops) EXCEPT ![c] =
                       [ops[c] EXCEPT !.pc = "returned", !.wakeAt = 0]]
              r == refresherFor(c)
          IN /\ globalState' = store1
             /\ IF miss /\ r # <<>>
                THEN /\ calls' = [cs EXCEPT ![r[1]] = awaitingTree(FALSE)]
                     /\ ops' = [os EXCEPT ![r[1]] = treeOp]
                ELSE /\ calls' = cs
                     /\ ops' = os
    /\ UNCHANGED <<now, config, lastMiss, quota, obsReset, auxVars>>

NextLive ==
    \/ LiveTick
    \/ \E force \in BOOLEAN : LiveBuildStart(force)
    \/ \E c \in Slots, outcome \in {"ok", "nonok", "throw"} :
          LiveRateLimitAnswers(c, outcome)
    \/ \E c \in Slots : LiveRateWaitDone(c)
    \/ \E c \in Slots : LiveResponseOk(c)
    \/ \E c \in Slots, forbidden \in BOOLEAN : LiveResponseFails(c, forbidden)
    \/ \E c \in Slots : LiveFetchCompletes(c)

\* a step of the call's fetchFullTree: an answer or failure of the request in
\* flight, or the end of the delay it awaits
LiveFetchStep(c) ==
    \/ \E outcome \in {"ok", "nonok", "throw"} : LiveRateLimitAnswers(c, outcome)
    \/ LiveRateWaitDone(c)
    \/ LiveResponseOk(c)
    \/ \E forbidden \in BOOLEAN : LiveResponseFails(c, forbidden)
    \/ LiveFetchCompletes(c)

\* time passes, timers fire, and every request is answered or fails
LiveFairness ==
    /\ WF_vars(LiveTick)
    /\ \A c \in Slots : WF_vars(LiveFetchStep(c))

SpecLive == InitLive /\ [][NextLive]_vars /\ LiveFairness

\* C21: no buildIndex call awaits its tree fetch for ever, whatever the cache
\* and the budget were when it started: a caller is again and again not
\* awaiting, or the calls it awaits end (with a catalog) again and again.
C21_BuildIndexEnds ==
    \A c \in Slots :
        \/ []<>(calls[c].pc # "fetching")
        \/ []<><<LiveFetchCompletes(c)>>_vars

\* a forced call has returned the catalog it fetched and stored
C21_Witness ==
    /\ calls["command"].force
    /\ wrote(calls["command"])
    /\ ops["command"].pc = "returned"
    /\ globalState.data = calls["command"].result

\* C27: unless callers keep calling buildIndex for ever, from some moment on
\* no refresh is in flight.
C27_NotificationsQuiesce ==
    \/ <>[](\A c \in Slots : calls[c].pc # "fetching")
    \/ []<><<\E force \in BOOLEAN : LiveBuildStart(force)>>_vars

====
